---- MODULE Spec2Model ----
(***************************************************************************)
(* A model of the openai-gateway request handler (src/main.go):            *)
(* credential acquisition (getJWTToken), request defaulting and dispatch   *)
(* (openaiProxyHandler), the single-shot translator                        *)
(* (convertToOpenAIResponse) and the streaming translator                  *)
(* (handleStreamResponse).  Requests are handled by concurrent goroutines  *)
(* that share the package-level http client.                               *)
(***************************************************************************)
EXTENDS Integers, Sequences, FiniteSets, TLC

(***************************************************************************)
(* Bounds of the model.                                                    *)
(***************************************************************************)
\* number of concurrently handled requests in the concurrent specification
NumReqs == 2
\* longest backend body, in newline-terminated lines
MaxLines == 3
\* the wall clock (seconds) advances at most this far
MaxClock == 1

(***************************************************************************)
(* JSON values, as encoding/json decodes them into interface{}.            *)
(***************************************************************************)
JStr(s) == [t |-> "str", s |-> s]
JNum(n) == [t |-> "num", n |-> n]
JBool(b) == [t |-> "bool", b |-> b]
JNull == [t |-> "null"]
JObj(m) == [t |-> "obj", m |-> m]
JArr(a) == [t |-> "arr", a |-> a]
\* the map with no keys (also what a nil Go map reads as)
EmptyMap == [k \in {} |-> JNull]

(***************************************************************************)
(* Text.  A text is a sequence of tokens: Txt(s) is the literal characters *)
(* s, Doc(v) is the serialisation of the JSON value v.                     *)
(***************************************************************************)
Txt(s) == [k |-> "txt", s |-> s]
Doc(v) == [k |-> "json", v |-> v]
SP == Txt(" ")
CR == Txt("\r")
NL == Txt("\n")

\* unicode.IsSpace on the characters the model uses
IsSpace(tok) == tok.k = "txt" /\ tok.s \in {" ", "\r", "\n", "\t"}

RECURSIVE TrimLeft(_)
TrimLeft(text) ==
    IF text # <<>> /\ IsSpace(Head(text)) THEN TrimLeft(Tail(text)) ELSE text

RECURSIVE TrimRight(_)
TrimRight(text) ==
    IF text # <<>> /\ IsSpace(text[Len(text)])
    THEN TrimRight(SubSeq(text, 1, Len(text) - 1))
    ELSE text

\* strings.TrimSpace
TrimSpace(text) == TrimRight(TrimLeft(text))

\* strings.HasPrefix
HasPrefix(text, prefix) ==
    Len(text) >= Len(prefix) /\ SubSeq(text, 1, Len(prefix)) = prefix

\* strings.TrimPrefix
TrimPrefix(text, prefix) ==
    IF HasPrefix(text, prefix) THEN SubSeq(text, Len(prefix) + 1, Len(text)) ELSE text

\* the literal "data: "
DataPrefix == <<Txt("data:"), SP>>
\* the literal "[DONE]"
DoneSentinel == <<Txt("[DONE]")>>

(***************************************************************************)
(* json.Unmarshal(text, &m) with m a map[string]interface{}: the text must *)
(* be exactly one JSON value with optional whitespace around it; an object *)
(* fills the map, null leaves it nil, any other value is a type error.     *)
(***************************************************************************)
UnmarshalMap(text) ==
    LET body == TrimSpace(text) IN
    IF Len(body) = 1 /\ body[1].k = "json" /\ body[1].v.t = "obj"
    THEN [err |-> FALSE, isNil |-> FALSE, m |-> body[1].v.m]
    ELSE IF Len(body) = 1 /\ body[1].k = "json" /\ body[1].v.t = "null"
    THEN [err |-> FALSE, isNil |-> TRUE, m |-> EmptyMap]
    ELSE [err |-> TRUE, isNil |-> TRUE, m |-> EmptyMap]

\* m[key] on a Go map: the value, or nil when the key is absent
MapGet(m, key) == IF key \in DOMAIN m THEN m[key] ELSE JNull

(***************************************************************************)
(* fmt.Sprintf("%v", x) for a decoded JSON value x.  A JSON number is a    *)
(* float64, which %v prints in the shortest %g form: plain digits while    *)
(* the decimal exponent is below 6, mantissa and exponent from there on.   *)
(* The model's numbers are integers.                                       *)
(***************************************************************************)
RECURSIVE Digits(_)
\* the decimal digits of n >= 0, most significant first
Digits(n) == IF n < 10 THEN <<n>> ELSE Append(Digits(n \div 10), n % 10)

RECURSIVE DropZeros(_)
DropZeros(ds) ==
    IF Len(ds) > 1 /\ ds[Len(ds)] = 0 THEN DropZeros(SubSeq(ds, 1, Len(ds) - 1)) ELSE ds

RECURSIVE DigitText(_)
DigitText(ds) == IF ds = <<>> THEN "" ELSE ToString(Head(ds)) \o DigitText(Tail(ds))

FmtFloat(n) ==
    LET a == IF n < 0 THEN 0 - n ELSE n
        sign == IF n < 0 THEN "-" ELSE ""
        ds == Digits(a)
        exp == Len(ds) - 1
        mant == DropZeros(ds)
    IN  IF exp < 6
        THEN sign \o DigitText(ds)
        ELSE sign \o ToString(mant[1])
                  \o (IF Len(mant) > 1 THEN "." \o DigitText(Tail(mant)) ELSE "")
                  \o "e+" \o (IF exp < 10 THEN "0" ELSE "") \o ToString(exp)

\* objects and arrays print as Go maps and slices; the model only ever
\* formats empty ones
FmtV(v) ==
    CASE v.t = "str"  -> v.s
      [] v.t = "num"  -> FmtFloat(v.n)
      [] v.t = "bool" -> IF v.b THEN "true" ELSE "false"
      [] v.t = "null" -> "<nil>"
      [] v.t = "obj"  -> "map[]"
      [] v.t = "arr"  -> "[]"

(***************************************************************************)
(* The outbound structs and their JSON encoding (the omitempty tags drop   *)
(* empty strings).                                                         *)
(***************************************************************************)
\* type Delta
Delta(content, role) == [Content |-> content, Role |-> role]

\* type OpenAIStreamChunk, with its one choice
OpenAIStreamChunk(id, created, model, delta, finishReason) ==
    [ID |-> id, Object |-> "chat.completion.chunk", Created |-> created,
     Model |-> model,
     Choices |-> <<[Delta |-> delta, FinishReason |-> finishReason]>>]

\* a map entry that is left out when the string is empty
OmitEmpty(key, s) == IF s = "" THEN EmptyMap ELSE key :> JStr(s)

MarshalDelta(d) == JObj(OmitEmpty("content", d.Content) @@ OmitEmpty("role", d.Role))

MarshalStreamChoice(c) ==
    JObj(("delta" :> MarshalDelta(c.Delta)) @@ OmitEmpty("finish_reason", c.FinishReason))

\* json.Marshal of an OpenAIStreamChunk
MarshalStreamChunk(c) ==
    JObj(("id" :> JStr(c.ID)) @@ ("object" :> JStr(c.Object))
         @@ ("created" :> JNum(c.Created)) @@ ("model" :> JStr(c.Model))
         @@ ("choices" :> JArr([i \in 1..Len(c.Choices) |-> MarshalStreamChoice(c.Choices[i])])))

\* fmt.Sprintf("data: %s\n\n", bytes)
SSEFrame(json) == DataPrefix \o <<Doc(json), NL, NL>>

\* gin.H{"error": gin.H{"message": ..., "type": ...}}
\* (the messages, Chinese in the source, are given in English)
ErrorEnvelope(message, type) ==
    JObj("error" :> JObj(("message" :> JStr(message)) @@ ("type" :> JStr(type))))

(***************************************************************************)
(* gin's response writer: the status is 200 until set, a status set after  *)
(* the header went out is ignored, every write sends the header first, and *)
(* the body is the sequence of writes.                                     *)
(***************************************************************************)
NewResponse == [status |-> 200, written |-> FALSE, hdr |-> [k \in {} |-> ""], body |-> <<>>]

\* c.Header(key, value)
RespHeader(w, key, value) ==
    IF w.written THEN w ELSE [w EXCEPT !.hdr = (key :> value) @@ w.hdr]

\* c.Status(code)
RespStatus(w, code) == IF w.written THEN w ELSE [w EXCEPT !.status = code]

\* c.Writer.Write / WriteString
RespWrite(w, text) == [w EXCEPT !.written = TRUE, !.body = Append(w.body, text)]

\* the renderers set Content-Type only when the handler has set none
RespContentType(w, value) ==
    IF "Content-Type" \in DOMAIN w.hdr THEN w ELSE RespHeader(w, "Content-Type", value)

\* c.JSON(code, obj)
RespJSON(w, code, obj) ==
    RespWrite(RespContentType(RespStatus(w, code), "application/json; charset=utf-8"),
              <<Doc(obj)>>)

\* c.Data(code, contentType, data)
RespData(w, code, contentType, data) ==
    RespWrite(RespContentType(RespStatus(w, code), contentType), data)

\* gin's Recovery middleware after a panic in the handler: AbortWithStatus(500)
RespRecover(w) == [RespStatus(w, 500) EXCEPT !.written = TRUE]

(***************************************************************************)
(* Configuration (initConfig), with the defaults of the environment        *)
(* variables.  Durations are in seconds.                                   *)
(***************************************************************************)
DefaultConfig ==
    [TokenURL |-> "http://localhost:8000/api/get-jwt",
     TokenMethod |-> "POST",
     TokenTimeout |-> 5,
     TokenPayloadTokenType |-> "SESSION_TOKEN",
     TargetURL |-> "http://localhost:8001/api/ai-call",
     TargetMethod |-> "POST",
     DefaultUser |-> "ai_model_user",
     DefaultMaxToken |-> 2000,
     ServerTimeout |-> 10]

\* the methods http.NewRequest accepts, among those the model configures
\* ("BAD METHOD" holds a space, which no method token may)
ValidMethod(method) == method \in {"GET", "POST", "PUT"}

(***************************************************************************)
(* State.                                                                  *)
(***************************************************************************)
VARIABLES
    config,         \* the package-level config struct
    env,            \* the deployment under study: names what the collaborators
                    \* (auth service, clients, backend) can send
    clientTimeout,  \* client.Timeout of the shared http.Client
    clock,          \* time.Now().Unix()
    pc,             \* per request: where its handler goroutine stands
    token,          \* per request: the token getJWTToken returned
    model,          \* per request: the model name
    isStream,       \* per request: the stream flag
    inbound,        \* per request: the body of the inbound request, once bound
    req,            \* per request: the outbound backend request once built
    calls,          \* per request: the outbound calls sent, in order, each with
                    \* the timeout it ran under and the reply it got
    upstream,       \* per request: the backend response (resp): its status and
                    \* content type, and what has been read of its body
    chunkID,        \* per request: chunkID of handleStreamResponse
    created,        \* per request: created of handleStreamResponse
    serr,           \* per request: what handleStreamResponse returned
    w,              \* per request: the response written to the client
    cancelled       \* per request: c.Request.Context().Err() != nil

globalVars == <<config, env>>
handlerVars == <<token, model, isStream, inbound, req>>
streamVars == <<chunkID, created, serr>>
vars == <<config, env, clientTimeout, clock, pc, token, model, isStream, inbound, req,
          calls, upstream, chunkID, created, serr, w, cancelled>>

Reqs == DOMAIN pc

\* a backend response whose body has not been read: lines are the
\* newline-terminated lines read so far (without their newline), tail the
\* unfinished last line and ending how the body ended, once it has
Upstream(status, ctype) ==
    [status |-> status, ctype |-> ctype, lines |-> <<>>, tail |-> <<>>, ending |-> "open"]
\* the response no backend call has produced yet
NoUpstream == Upstream(0, "")
\* the outbound request not yet built
NoRequest == [payload |-> <<>>, headers |-> [k \in {} |-> ""]]

InitRequests(n) ==
    /\ clientTimeout = 0
    /\ clock = 0
    /\ pc = [r \in 1..n |-> "start"]
    /\ token = [r \in 1..n |-> ""]
    /\ model = [r \in 1..n |-> ""]
    /\ isStream = [r \in 1..n |-> FALSE]
    /\ inbound = [r \in 1..n |-> <<>>]
    /\ req = [r \in 1..n |-> NoRequest]
    /\ calls = [r \in 1..n |-> <<>>]
    /\ upstream = [r \in 1..n |-> NoUpstream]
    /\ chunkID = [r \in 1..n |-> ""]
    /\ created = [r \in 1..n |-> 0]
    /\ serr = [r \in 1..n |-> "none"]
    /\ w = [r \in 1..n |-> NewResponse]
    /\ cancelled = [r \in 1..n |-> FALSE]

(***************************************************************************)
(* What the collaborators send.                                            *)
(***************************************************************************)
Obj1(k, v) == JObj(k :> v)

\* random UUIDs, as their groups of hex digits (shortened)
UuidA == <<"3f2a9c1e", "7b4d", "4e8a", "9c0f", "5d6e7f8091a2">>
UuidB == <<"c4e1b7a0", "12ab", "4cde", "8f01", "23456789abcd">>

\* auth replies
AuthBody(v) == [kind |-> "body", text |-> <<Doc(v)>>]
AuthNetErr == [kind |-> "neterr", text |-> <<>>]
AuthReadErr == [kind |-> "readerr", text |-> <<>>]

\* inbound chat-completion bodies
StreamRequest == <<Doc(JObj(("model" :> JStr("m")) @@ ("stream" :> JBool(TRUE))))>>
PlainRequest == <<Doc(JObj("model" :> JStr("m")))>>

\* backend event-stream lines, without their newline
DataLine(v) == DataPrefix \o <<Doc(v)>>
LineA == DataLine(Obj1("content", JStr("A")))
LineB == DataLine(Obj1("content", JStr("B"))) \o <<CR>>
LineDone == DataPrefix \o DoneSentinel
LineBad == DataPrefix \o <<Txt("{bad")>>
LineBlank == <<>>
LineIndented == <<SP>> \o DataLine(Obj1("content", JStr("C")))
LineNoSpace == <<Txt("data:"), Doc(Obj1("content", JStr("D")))>>
LineScalar == DataLine(JStr("S"))
LineEmpty == DataLine(Obj1("content", JStr("")))

\* the lines an event stream is made of
AllStreamLines ==
    {LineA, LineB, LineDone, LineBad, LineBlank, LineIndented, LineNoSpace,
     LineScalar, LineEmpty}

\* how a body ends: at end-of-input, with or without an unfinished last
\* line, or with a read error
Body(lines, tail, ending) == [lines |-> lines, tail |-> tail, ending |-> ending]
LineZ == DataLine(Obj1("content", JStr("Z")))
AllBodyEnds == {Body(<<>>, <<>>, "EOF"), Body(<<>>, LineZ, "EOF"), Body(<<>>, <<>>, "ERR")}

\* the head of a backend response, or a transport failure
BackendNetErr == [kind |-> "neterr", status |-> 0, ctype |-> ""]
BackendResp(status, ctype) == [kind |-> "resp", status |-> status, ctype |-> ctype]

\* a complete single-shot reply
PlainReply ==
    Body(<<>>,
         <<Doc(JObj(("content" :> JStr("hi")) @@ ("finish_reason" :> JStr("stop"))))>>,
         "EOF")
\* an event stream, read whole
StreamReply == Body(<<LineA, LineBlank>>, <<>>, "EOF")

\* what an auth reply may hold under one of the three field names: nothing,
\* a token, the empty string, a number
FieldValues(t) == {<<>>, <<JStr(t)>>, <<JStr("")>>, <<JNum(7)>>}

\* the JSON object with the fields given, each as a sequence of zero or one value
TokenObject(tok, acc, jwt) ==
    LET present == {f \in {"token", "access_token", "jwt"} :
                        (CASE f = "token" -> tok [] f = "access_token" -> acc
                           [] f = "jwt" -> jwt) # <<>>}
    IN JObj([f \in present |->
                (CASE f = "token" -> tok [] f = "access_token" -> acc [] f = "jwt" -> jwt)[1]])

\* every auth reply: the JSON objects with any of the three fields, bodies
\* that are no JSON object, and the failures of the call
AllAuthReplies ==
    {AuthBody(TokenObject(tok, acc, jwt)) :
        tok \in FieldValues("t1"), acc \in FieldValues("t2"), jwt \in FieldValues("t3")}
    \cup {AuthBody(JNull), AuthBody(JArr(<<JStr("t1")>>)),
          [kind |-> "body", text |-> <<Txt("<html>")>>],
          [kind |-> "body", text |-> <<>>],
          AuthNetErr, AuthReadErr}

\* the auth reply of a service that works
GoodAuthReply == AuthBody(Obj1("token", JStr("t1")))

\* the JSON object with the fields given, each as a sequence of zero or one value
ObjectOf(fields) ==
    JObj([k \in {k \in DOMAIN fields : fields[k] # <<>>} |-> fields[k][1]])

\* every inbound body: the JSON objects with any of the keys the handler
\* looks at and one it does not, and bodies that are no JSON object
AllInbounds ==
    {<<Doc(ObjectOf([user |-> u, max_tokens |-> mts, max_token |-> mt, stream |-> st,
                     model |-> md, temperature |-> tp]))>> :
        u \in {<<>>, <<JStr("u1")>>, <<JStr("")>>},
        mts \in {<<>>, <<JNum(5)>>}, mt \in {<<>>, <<JNum(1)>>},
        st \in {<<>>, <<JBool(TRUE)>>}, md \in {<<>>, <<JStr("m")>>},
        tp \in {<<>>, <<JNum(1)>>}}
    \cup {<<Doc(JNull)>>, <<Doc(JArr(<<>>))>>, <<Txt("{bad")>>, <<>>}

\* the decimal texts of the largest int and of the number after it
MaxInt64Text == "9223372036854775807"
OverInt64Text == "9223372036854775808"

\* every single-shot backend body: the JSON objects with or without content
\* and token counts (numbers, numbers as text, other text), bodies that are
\* no JSON object, and a body whose read fails
AllBodies ==
    {Body(<<>>,
          <<Doc(ObjectOf([content |-> ct, finish_reason |-> fr, prompt_tokens |-> pt,
                          completion_tokens |-> cpt]))>>,
          "EOF") :
        ct \in {<<>>, <<JStr("hi")>>}, fr \in {<<>>, <<JStr("stop")>>},
        pt \in {<<>>, <<JNum(12)>>, <<JStr("7")>>, <<JStr("x")>>, <<JNum(1000000)>>,
                <<JStr(MaxInt64Text)>>, <<JStr(OverInt64Text)>>},
        cpt \in {<<>>, <<JNum(3)>>, <<JStr(MaxInt64Text)>>}}
    \cup {Body(<<>>, <<Txt("<html>")>>, "EOF"), Body(<<>>, <<>>, "EOF"),
          Body(<<>>, <<Doc(JArr(<<>>))>>, "EOF"), Body(<<>>, <<Doc(JNull)>>, "EOF"),
          Body(<<>>, <<>>, "ERR")}

\* the pools of the deployment named by env
AuthReplies ==
    CASE env = "stream" -> {GoodAuthReply}
      [] env = "token" -> AllAuthReplies
      [] env = "concurrent" -> {GoodAuthReply}
      [] env = "handler" -> {GoodAuthReply, AuthNetErr}
      [] env = "crossed" -> {GoodAuthReply, AuthBody(Obj1("jwt", JStr("t2"))),
                            AuthBody(Obj1("token", JStr(""))), AuthNetErr}

Inbounds ==
    CASE env = "stream" -> {StreamRequest, PlainRequest}
      [] env = "token" -> {StreamRequest, PlainRequest}
      [] env = "concurrent" -> {StreamRequest, PlainRequest}
      [] env = "handler" -> AllInbounds
      [] env = "crossed" -> {StreamRequest, PlainRequest}

Backends ==
    CASE env = "stream" -> {BackendResp(200, "text/event-stream")}
      [] env = "token" -> {BackendResp(200, "text/event-stream"), BackendNetErr}
      [] env = "concurrent" -> {BackendResp(200, "text/event-stream")}
      [] env = "handler" -> {BackendResp(200, "application/json"), BackendResp(500, "text/html"),
                            BackendNetErr}
      [] env = "crossed" -> {BackendResp(200, "text/event-stream")}

\* the lines the backend streams
StreamLines ==
    CASE env = "stream" -> AllStreamLines
      [] env = "token" -> {LineA}
      [] env = "concurrent" -> {LineA}
      [] env = "handler" -> {LineA}
      [] env = "crossed" -> {LineA}

\* the ends of a streamed body
BodyEnds ==
    CASE env = "stream" -> AllBodyEnds
      [] env = "token" -> {Body(<<>>, <<>>, "EOF")}
      [] env = "concurrent" -> {Body(<<>>, <<>>, "EOF")}
      [] env = "handler" -> {Body(<<>>, <<>>, "EOF")}
      [] env = "crossed" -> {Body(<<>>, <<>>, "EOF")}

\* the bodies io.ReadAll reads whole
Bodies ==
    CASE env = "stream" -> {PlainReply, StreamReply, Body(<<>>, <<>>, "ERR")}
      [] env = "token" -> {PlainReply}
      [] env = "concurrent" -> {PlainReply}
      [] env = "handler" -> AllBodies
      [] env = "crossed" -> {PlainReply}

\* the random UUIDs drawn for completion ids
Uuids ==
    CASE env = "stream" -> {UuidA, UuidB}
      [] env = "token" -> {UuidA}
      [] env = "concurrent" -> {UuidA}
      [] env = "handler" -> {UuidA}
      [] env = "crossed" -> {UuidA}

\* the random UUIDs drawn for the correlation and session headers
HeaderUuids ==
    CASE env = "stream" -> {UuidA}
      [] env = "token" -> {UuidA}
      [] env = "concurrent" -> {UuidA}
      [] env = "handler" -> {UuidA}
      [] env = "crossed" -> {UuidA}

(***************************************************************************)
(* getJWTToken.                                                            *)
(***************************************************************************)
\* a lookup that tries jwt before access_token
TokenFieldJwtFirst(tokenResp) ==
    IF "token" \in DOMAIN tokenResp THEN "token"
    ELSE IF "jwt" \in DOMAIN tokenResp THEN "jwt"
    ELSE IF "access_token" \in DOMAIN tokenResp THEN "access_token"
    ELSE ""

\* the field the token is taken from: token, else access_token, else jwt
\* (main.go 187-195); "" when the reply has none of them
TokenField(tokenResp) ==
    IF "token" \in DOMAIN tokenResp THEN "token"
    ELSE IF "access_token" \in DOMAIN tokenResp THEN "access_token"
    ELSE IF "jwt" \in DOMAIN tokenResp THEN "jwt"
    ELSE ""

TokenOk(t) == [kind |-> "ok", token |-> t, msg |-> ""]
TokenErr(msg) == [kind |-> "err", token |-> "", msg |-> msg]
\* the type assertion t.(string) on a value that is no string panics
TokenPanic == [kind |-> "panic", token |-> "", msg |-> "interface conversion"]

\* an extraction that passes over empty fields to the first one that holds a
\* token
ExtractTokenSkipsEmpty(tokenResp) ==
    LET full == {f \in DOMAIN tokenResp \cap {"token", "access_token", "jwt"} :
                    tokenResp[f].t = "str" /\ tokenResp[f].s # ""}
        f == TokenField(tokenResp)
    IN
    IF f = "" THEN TokenErr("token response has no valid field")
    ELSE IF "token" \in full THEN TokenOk(tokenResp["token"].s)
    ELSE IF "access_token" \in full THEN TokenOk(tokenResp["access_token"].s)
    ELSE IF "jwt" \in full THEN TokenOk(tokenResp["jwt"].s)
    ELSE IF tokenResp[f].t # "str" THEN TokenPanic
    ELSE TokenErr("got an empty JWT token")

\* lines 185-200: pick the field, assert it a string, reject the empty one
ExtractToken(tokenResp) ==
    LET f == TokenField(tokenResp) IN
    IF f = "" THEN TokenErr("token response has no valid field")
    ELSE IF tokenResp[f].t # "str" THEN TokenPanic
    ELSE IF tokenResp[f].s = "" THEN TokenErr("got an empty JWT token")
    ELSE TokenOk(tokenResp[f].s)

\* lines 169-200: what getJWTToken returns for what the auth call produced
GetJWTTokenResult(reply) ==
    IF reply.kind = "neterr" THEN TokenErr("token request failed")
    ELSE IF reply.kind = "readerr" THEN TokenErr("reading the token response failed")
    ELSE LET parsed == UnmarshalMap(reply.text) IN
         IF parsed.err THEN TokenErr("parsing the token response failed")
         ELSE ExtractToken(parsed.m)

\* the handler's answer to a failed acquisition (lines 352-360)
TokenErrorResponse(resp, msg) ==
    RespJSON(resp, 500, ErrorEnvelope("getting the token failed: " \o msg, "token_error"))

\* lines 151-165: build the token request; NewRequest rejects a bad method
GetJWTTokenBuild(r) ==
    /\ pc[r] = "start"
    /\ IF ValidMethod(config.TokenMethod)
       THEN /\ pc' = [pc EXCEPT ![r] = "tok_timeout"]
            /\ w' = w
       ELSE /\ pc' = [pc EXCEPT ![r] = "done"]
            /\ w' = [w EXCEPT ![r] = TokenErrorResponse(w[r], "building the token request failed")]
    /\ UNCHANGED <<globalVars, clientTimeout, clock, handlerVars, calls, upstream,
                   streamVars, cancelled>>

\* line 168: client.Timeout = config.TokenTimeout, a write to the shared client
GetJWTTokenSetTimeout(r) ==
    /\ pc[r] = "tok_timeout"
    /\ clientTimeout' = config.TokenTimeout
    /\ pc' = [pc EXCEPT ![r] = "tok_do"]
    /\ UNCHANGED <<globalVars, clock, handlerVars, calls, upstream, streamVars, w,
                   cancelled>>

\* a token call that is sent a second time when the first one fails
GetJWTTokenDoRetries(r) ==
    /\ pc[r] = "tok_do"
    /\ \E reply \in AuthReplies :
         LET res == GetJWTTokenResult(reply) IN
         /\ calls' = [calls EXCEPT ![r] =
                         Append(@, [to |-> "auth", timeout |-> clientTimeout,
                                    req |-> NoRequest, reply |-> reply])]
         /\ CASE res.kind = "ok" ->
                   /\ token' = [token EXCEPT ![r] = res.token]
                   /\ pc' = [pc EXCEPT ![r] = "bind"]
                   /\ w' = w
              [] res.kind # "ok" /\ Len(calls[r]) = 0 ->
                   /\ token' = token
                   /\ pc' = pc
                   /\ w' = w
              [] res.kind # "ok" /\ Len(calls[r]) > 0 ->
                   /\ token' = token
                   /\ pc' = [pc EXCEPT ![r] = "done"]
                   /\ w' = [w EXCEPT ![r] = TokenErrorResponse(w[r], res.msg)]
    /\ UNCHANGED <<globalVars, clientTimeout, clock, model, isStream, inbound, req, upstream,
                   streamVars, cancelled>>

\* lines 169-200 and 351-360: client.Do reads client.Timeout and sends the call;
\* the reply is parsed and the handler goes on or answers token_error
GetJWTTokenDo(r) ==
    /\ pc[r] = "tok_do"
    /\ \E reply \in AuthReplies :
         LET res == GetJWTTokenResult(reply) IN
         /\ calls' = [calls EXCEPT ![r] =
                         Append(@, [to |-> "auth", timeout |-> clientTimeout,
                                    req |-> NoRequest, reply |-> reply])]
         /\ CASE res.kind = "ok" ->
                   /\ token' = [token EXCEPT ![r] = res.token]
                   /\ pc' = [pc EXCEPT ![r] = "bind"]
                   /\ w' = w
              [] res.kind = "err" ->
                   /\ token' = token
                   /\ pc' = [pc EXCEPT ![r] = "done"]
                   /\ w' = [w EXCEPT ![r] = TokenErrorResponse(w[r], res.msg)]
              [] res.kind = "panic" ->
                   \* gin's Recovery answers 500 with no body
                   /\ token' = token
                   /\ pc' = [pc EXCEPT ![r] = "done"]
                   /\ w' = [w EXCEPT ![r] = RespRecover(w[r])]
    /\ UNCHANGED <<globalVars, clientTimeout, clock, model, isStream, inbound, req, upstream,
                   streamVars, cancelled>>

(***************************************************************************)
(* openaiProxyHandler, steps 2 to 8: bind, default, build, forward.        *)
(***************************************************************************)
\* c.ShouldBindJSON(&m): a json.Decoder reads the first JSON value of the
\* body and validates nothing on a map; what follows the value is not read
DecodeMap(text) ==
    LET body == TrimLeft(text) IN
    IF body # <<>> /\ body[1].k = "json" /\ body[1].v.t = "obj"
    THEN [err |-> FALSE, isNil |-> FALSE, m |-> body[1].v.m]
    ELSE IF body # <<>> /\ body[1].k = "json" /\ body[1].v.t = "null"
    THEN [err |-> FALSE, isNil |-> TRUE, m |-> EmptyMap]
    ELSE [err |-> TRUE, isNil |-> TRUE, m |-> EmptyMap]

\* a default user that replaces the caller's
WithDefaultUserAlways(doc, cfg) ==
    [k \in DOMAIN doc \cup {"user"} |-> IF k = "user" THEN JStr(cfg.DefaultUser) ELSE doc[k]]

\* lines 375-377
WithDefaultUser(doc, cfg) ==
    IF "user" \in DOMAIN doc THEN doc ELSE ("user" :> JStr(cfg.DefaultUser)) @@ doc

\* a default that tests the key it writes
WithDefaultMaxTokenSameKey(doc, cfg) ==
    IF "max_tokens" \in DOMAIN doc THEN doc
    ELSE ("max_tokens" :> JNum(cfg.DefaultMaxToken)) @@ doc

\* lines 378-380: the check reads max_token, the write goes to max_tokens
WithDefaultMaxToken(doc, cfg) ==
    IF "max_token" \in DOMAIN doc THEN doc
    ELSE ("max_tokens" :> JNum(cfg.DefaultMaxToken)) @@ doc

\* step 3
ApplyDefaults(doc, cfg) == WithDefaultMaxToken(WithDefaultUser(doc, cfg), cfg)

\* strconv.ParseBool, its error dropped
ParseBool(s) == s \in {"1", "t", "T", "TRUE", "true", "True"}

\* lines 383-386
ModelOf(doc) == IF "model" \in DOMAIN doc THEN FmtV(doc["model"]) ELSE "gpt-3.5-turbo"

\* lines 387-390
IsStreamOf(doc) == IF "stream" \in DOMAIN doc THEN ParseBool(FmtV(doc["stream"])) ELSE FALSE

RECURSIVE JoinDash(_)
\* uuid.UUID.String(): the groups of hex digits joined by dashes
JoinDash(groups) ==
    IF Len(groups) = 1 THEN groups[1] ELSE groups[1] \o "-" \o JoinDash(Tail(groups))

RECURSIVE Concat(_)
Concat(groups) == IF groups = <<>> THEN "" ELSE Head(groups) \o Concat(Tail(groups))

\* generateRandomString for the random UUID u
GenerateRandomString(u) == JoinDash(u)

\* fmt.Sprintf("chatcmpl-%s", strings.ReplaceAll(generateRandomString(), "-", ""))
CompletionID(u) == "chatcmpl-" \o Concat(u)

\* headers that leave the credential out
TargetHeadersNoCredential(tok, corr, sess) ==
    ("X-Trust-Token" :> "") @@ ("x-correlation-id" :> GenerateRandomString(corr))
    @@ ("x-usersession-id" :> GenerateRandomString(sess))
    @@ ("Token_Type" :> "SESSION_TOKEN") @@ ("Content-Type" :> "application/json")

\* lines 416-421
TargetHeaders(tok, corr, sess) ==
    ("X-Trust-Token" :> tok) @@ ("x-correlation-id" :> GenerateRandomString(corr))
    @@ ("x-usersession-id" :> GenerateRandomString(sess))
    @@ ("Token_Type" :> "SESSION_TOKEN") @@ ("Content-Type" :> "application/json")

\* lines 362-421: bind the inbound body, apply the defaults, read model and
\* stream, serialise, build the backend request and set its headers
PrepareRequest(r) ==
    /\ pc[r] = "bind"
    /\ \E body \in Inbounds, corr \in HeaderUuids, sess \in HeaderUuids :
         LET parsed == DecodeMap(body)
             doc == ApplyDefaults(parsed.m, config)
         IN
         /\ inbound' = [inbound EXCEPT ![r] = body]
         /\ IF parsed.err
            THEN /\ w' = [w EXCEPT ![r] =
                            RespJSON(w[r], 400,
                                     ErrorEnvelope("parsing the request body failed",
                                                   "invalid_request_error"))]
                 /\ pc' = [pc EXCEPT ![r] = "done"]
                 /\ UNCHANGED <<model, isStream, req>>
            ELSE IF parsed.isNil
            THEN \* assignment to an entry of a nil map panics
                 /\ w' = [w EXCEPT ![r] = RespRecover(w[r])]
                 /\ pc' = [pc EXCEPT ![r] = "done"]
                 /\ UNCHANGED <<model, isStream, req>>
            ELSE IF ~ValidMethod(config.TargetMethod)
            THEN /\ w' = [w EXCEPT ![r] =
                            RespJSON(w[r], 500,
                                     ErrorEnvelope("building the target request failed",
                                                   "internal_error"))]
                 /\ pc' = [pc EXCEPT ![r] = "done"]
                 /\ model' = [model EXCEPT ![r] = ModelOf(doc)]
                 /\ isStream' = [isStream EXCEPT ![r] = IsStreamOf(doc)]
                 /\ req' = req
            ELSE /\ w' = w
                 /\ pc' = [pc EXCEPT ![r] = "fwd_timeout"]
                 /\ model' = [model EXCEPT ![r] = ModelOf(doc)]
                 /\ isStream' = [isStream EXCEPT ![r] = IsStreamOf(doc)]
                 /\ req' = [req EXCEPT ![r] =
                              [payload |-> <<Doc(JObj(doc))>>,
                               headers |-> TargetHeaders(token[r], corr, sess)]]
    /\ UNCHANGED <<globalVars, clientTimeout, clock, token, calls, upstream,
                   streamVars, cancelled>>

\* line 424: client.Timeout = config.ServerTimeout, a write to the shared client
ForwardSetTimeout(r) ==
    /\ pc[r] = "fwd_timeout"
    /\ clientTimeout' = config.ServerTimeout
    /\ pc' = [pc EXCEPT ![r] = "fwd_do"]
    /\ UNCHANGED <<globalVars, clock, handlerVars, calls, upstream, streamVars, w,
                   cancelled>>

\* lines 425-435: client.Do reads client.Timeout and sends the request; a
\* transport failure is answered with downstream_error
ForwardDo(r) ==
    /\ pc[r] = "fwd_do"
    /\ \E reply \in Backends :
         /\ calls' = [calls EXCEPT ![r] =
                         Append(@, [to |-> "backend", timeout |-> clientTimeout,
                                    req |-> req[r], reply |-> reply])]
         /\ IF reply.kind = "neterr"
            THEN /\ w' = [w EXCEPT ![r] =
                            RespJSON(w[r], 502,
                                     ErrorEnvelope("forwarding the request failed",
                                                   "downstream_error"))]
                 /\ pc' = [pc EXCEPT ![r] = "done"]
                 /\ upstream' = upstream
            ELSE /\ w' = w
                 /\ pc' = [pc EXCEPT ![r] =
                              IF isStream[r] THEN "stream_start" ELSE "nonstream"]
                 /\ upstream' = [upstream EXCEPT ![r] = Upstream(reply.status, reply.ctype)]
    /\ UNCHANGED <<globalVars, clientTimeout, clock, handlerVars, streamVars, cancelled>>

(***************************************************************************)
(* handleStreamResponse.                                                   *)
(***************************************************************************)
\* a closing chunk that looks like a content chunk
FinishChunkNoStop(id, at, mdl) == OpenAIStreamChunk(id, at, mdl, Delta("", "assistant"), "")

\* lines 274-288: the closing chunk
FinishChunk(id, at, mdl) == OpenAIStreamChunk(id, at, mdl, Delta("", ""), "stop")

\* a content chunk that reads the wrong key of the backend event
ContentChunkWrongKey(id, at, mdl, targetChunk) ==
    OpenAIStreamChunk(id, at, mdl,
                      Delta(FmtV(MapGet(targetChunk, "text")), "assistant"), "")

\* a content chunk stamped with the time it is written at
ContentChunkStampedNow(id, at, mdl, targetChunk) ==
    OpenAIStreamChunk(id, clock, mdl,
                      Delta(FmtV(MapGet(targetChunk, "content")), "assistant"), "")

\* lines 314-331: the chunk for one decoded backend event
ContentChunk(id, at, mdl, targetChunk) ==
    OpenAIStreamChunk(id, at, mdl,
                      Delta(FmtV(MapGet(targetChunk, "content")), "assistant"), "")

\* line 298-299: the line, trimmed, starts with "data: "
IsDataLine(line) == HasPrefix(TrimSpace(line), DataPrefix)

\* line 302: what follows the prefix
DataOf(line) == TrimPrefix(TrimSpace(line), DataPrefix)

\* a translation that writes a chunk for a payload that does not parse
TranslateLineNoParseCheck(line, id, at, mdl) ==
    LET none == [emit |-> FALSE, frame |-> <<>>] IN
    IF ~IsDataLine(line) THEN none
    ELSE IF DataOf(line) = DoneSentinel THEN none
    ELSE [emit |-> TRUE,
          frame |-> SSEFrame(MarshalStreamChunk(
                        ContentChunk(id, at, mdl, UnmarshalMap(DataOf(line)).m)))]

\* a translation that closes the stream at the [DONE] sentinel
TranslateLineDoneCloses(line, id, at, mdl) ==
    LET none == [emit |-> FALSE, frame |-> <<>>] IN
    IF ~IsDataLine(line) THEN none
    ELSE IF DataOf(line) = DoneSentinel
    THEN [emit |-> TRUE, frame |-> SSEFrame(MarshalStreamChunk(FinishChunk(id, at, mdl)))]
    ELSE LET parsed == UnmarshalMap(DataOf(line)) IN
         IF parsed.err THEN none
         ELSE [emit |-> TRUE,
               frame |-> SSEFrame(MarshalStreamChunk(ContentChunk(id, at, mdl, parsed.m)))]

\* lines 297-338 for one line as ReadString returned it: whether a frame is
\* written, and the frame
TranslateLine(line, id, at, mdl) ==
    LET none == [emit |-> FALSE, frame |-> <<>>] IN
    IF ~IsDataLine(line) THEN none
    ELSE IF DataOf(line) = DoneSentinel THEN none
    ELSE LET parsed == UnmarshalMap(DataOf(line)) IN
         IF parsed.err THEN none
         ELSE [emit |-> TRUE,
               frame |-> SSEFrame(MarshalStreamChunk(ContentChunk(id, at, mdl, parsed.m)))]

\* lines 259-266: the headers, the reader, chunkID and created
StreamStart(r) ==
    /\ pc[r] = "stream_start"
    /\ \E u \in Uuids : chunkID' = [chunkID EXCEPT ![r] = CompletionID(u)]
    /\ created' = [created EXCEPT ![r] = clock]
    /\ w' = [w EXCEPT ![r] =
               RespHeader(RespHeader(RespHeader(w[r], "Content-Type", "text/event-stream"),
                                     "Cache-Control", "no-cache"),
                          "Connection", "keep-alive")]
    /\ pc' = [pc EXCEPT ![r] = "stream_read"]
    /\ UNCHANGED <<globalVars, clientTimeout, clock, handlerVars, calls, upstream,
                   serr, cancelled>>

\* lines 270 and 297-339: ReadString returns a whole line, newline included;
\* the line is dropped or translated and written
StreamReadLine(r) ==
    /\ pc[r] = "stream_read"
    /\ Len(upstream[r].lines) < MaxLines
    /\ \E next \in StreamLines :
         LET line == Append(next, NL)
             out == TranslateLine(line, chunkID[r], created[r], model[r])
         IN /\ upstream' = [upstream EXCEPT ![r].lines = Append(@, next)]
            /\ IF out.emit
               THEN /\ w' = [w EXCEPT ![r] = RespWrite(w[r], out.frame)]
                    /\ pc' = [pc EXCEPT ![r] = "stream_check"]
               ELSE /\ w' = w
                    /\ pc' = pc
    /\ UNCHANGED <<globalVars, clientTimeout, clock, handlerVars, calls,
                   chunkID, created, serr, cancelled>>

\* an end of input that still translates the unfinished last line
StreamReadEndKeepsTail(r) ==
    /\ pc[r] = "stream_read"
    /\ \E end \in BodyEnds :
         LET last == TranslateLine(end.tail, chunkID[r], created[r], model[r])
             finish == SSEFrame(MarshalStreamChunk(
                           FinishChunk(chunkID[r], created[r], model[r])))
         IN
         /\ upstream' = [upstream EXCEPT ![r].tail = end.tail, ![r].ending = end.ending]
         /\ IF end.ending = "EOF"
            THEN /\ w' = [w EXCEPT ![r] =
                            IF last.emit THEN RespWrite(RespWrite(w[r], last.frame), finish)
                            ELSE RespWrite(w[r], finish)]
                 /\ serr' = [serr EXCEPT ![r] = "nil"]
            ELSE /\ w' = w
                 /\ serr' = [serr EXCEPT ![r] = "error"]
    /\ pc' = [pc EXCEPT ![r] = "stream_ret"]
    /\ UNCHANGED <<globalVars, clientTimeout, clock, handlerVars, calls,
                   chunkID, created, cancelled>>

\* lines 270-295: ReadString fails.  At io.EOF what was read of an unfinished
\* line is dropped, the closing chunk is written and nil returned; any other
\* error is returned
StreamReadEnd(r) ==
    /\ pc[r] = "stream_read"
    /\ \E end \in BodyEnds :
         /\ upstream' = [upstream EXCEPT ![r].tail = end.tail, ![r].ending = end.ending]
         /\ IF end.ending = "EOF"
            THEN /\ w' = [w EXCEPT ![r] =
                            RespWrite(w[r], SSEFrame(MarshalStreamChunk(
                                          FinishChunk(chunkID[r], created[r], model[r]))))]
                 /\ serr' = [serr EXCEPT ![r] = "nil"]
            ELSE /\ w' = w
                 /\ serr' = [serr EXCEPT ![r] = "error"]
    /\ pc' = [pc EXCEPT ![r] = "stream_ret"]
    /\ UNCHANGED <<globalVars, clientTimeout, clock, handlerVars, calls,
                   chunkID, created, cancelled>>

\* a check that never looks at the request's context
StreamCheckIgnoresCancel(r) ==
    /\ pc[r] = "stream_check"
    /\ pc' = [pc EXCEPT ![r] = "stream_read"]
    /\ UNCHANGED <<globalVars, clientTimeout, clock, handlerVars, calls, upstream,
                   chunkID, created, serr, w, cancelled>>

\* lines 341-344: after a chunk, return nil when the client is gone
StreamCheck(r) ==
    /\ pc[r] = "stream_check"
    /\ IF cancelled[r]
       THEN /\ serr' = [serr EXCEPT ![r] = "nil"]
            /\ pc' = [pc EXCEPT ![r] = "stream_ret"]
       ELSE /\ serr' = serr
            /\ pc' = [pc EXCEPT ![r] = "stream_read"]
    /\ UNCHANGED <<globalVars, clientTimeout, clock, handlerVars, calls, upstream,
                   chunkID, created, w, cancelled>>

\* lines 438-446: the handler answers an error of handleStreamResponse with
\* stream_error
StreamReturn(r) ==
    /\ pc[r] = "stream_ret"
    /\ w' = [w EXCEPT ![r] =
               IF serr[r] = "error"
               THEN RespJSON(w[r], 500,
                             ErrorEnvelope("handling the stream response failed",
                                           "stream_error"))
               ELSE w[r]]
    /\ pc' = [pc EXCEPT ![r] = "done"]
    /\ UNCHANGED <<globalVars, clientTimeout, clock, handlerVars, calls, upstream,
                   streamVars, cancelled>>

(***************************************************************************)
(* The environment: the client goes away, time passes.                     *)
(***************************************************************************)
\* the client closes the connection: the request's context is cancelled
ClientCancel(r) ==
    /\ pc[r] # "done"
    /\ ~cancelled[r]
    /\ cancelled' = [cancelled EXCEPT ![r] = TRUE]
    /\ UNCHANGED <<globalVars, clientTimeout, clock, pc, handlerVars, calls, upstream,
                   streamVars, w>>

Tick ==
    /\ clock < MaxClock
    /\ \E r \in Reqs : pc[r] # "done"
    /\ clock' = clock + 1
    /\ UNCHANGED <<globalVars, clientTimeout, pc, handlerVars, calls, upstream,
                   streamVars, w, cancelled>>

(***************************************************************************)
(* convertToOpenAIResponse and the non-stream branch of the handler.       *)
(***************************************************************************)
\* A Go int has 64 bits.  The model holds the ints near zero and near the
\* two ends of the range, as hi * 2^63 + lo with lo small.
Int64(hi, lo) == [hi |-> hi, lo |-> lo]
MaxInt64 == Int64(1, -1)
MinInt64 == Int64(-1, 0)

\* whether hi * 2^63 + lo lies in the range of an int
InInt64(x) == x.hi = 0 \/ (x.hi = 1 /\ x.lo < 0) \/ (x.hi = -1 /\ x.lo >= 0)

\* the sum of two ints as a number
WideSum(a, b) == Int64(a.hi + b.hi, a.lo + b.lo)

\* a + b on ints: the sum modulo 2^64, in the range of an int
Add64(a, b) ==
    LET x == WideSum(a, b) IN
    IF InInt64(x) THEN x
    ELSE IF x.hi > 0 THEN Int64(x.hi - 2, x.lo) ELSE Int64(x.hi + 2, x.lo)

\* strconv.Atoi, its error dropped: the number a decimal text stands for,
\* the largest int for a text beyond the range (Atoi returns it with its
\* range error), 0 for any other text.  The small texts the model parses
\* stand for numbers of at most MaxCount.
MaxCount == 40

Atoi(s) ==
    LET hits == {n \in 0..MaxCount : DigitText(Digits(n)) = s} IN
    IF hits # {} THEN Int64(0, CHOOSE n \in hits : TRUE)
    ELSE IF s \in {MaxInt64Text, OverInt64Text} THEN MaxInt64
    ELSE Int64(0, 0)

\* lines 240-245: a count is read only when its key is present
CountOf(targetData, key) ==
    IF key \in DOMAIN targetData THEN Atoi(FmtV(targetData[key])) ELSE Int64(0, 0)

\* a JSON number written from a Go int
JInt(i) == [t |-> "int", i |-> i]

\* lines 212-246: the OpenAIResponse struct, JSON-encoded
OpenAIResponse(id, at, mdl, targetData) ==
    LET prompt == CountOf(targetData, "prompt_tokens")
        completion == CountOf(targetData, "completion_tokens")
    IN JObj(("id" :> JStr(id)) @@ ("object" :> JStr("chat.completion"))
            @@ ("created" :> JNum(at)) @@ ("model" :> JStr(mdl))
            @@ ("choices" :> JArr(<<JObj(
                   ("message" :> JObj(("role" :> JStr("assistant"))
                        @@ ("content" :> JStr(FmtV(MapGet(targetData, "content"))))))
                   @@ ("finish_reason" :> JStr(FmtV(MapGet(targetData, "finish_reason"))))
                   @@ ("index" :> JNum(0)))>>))
            @@ ("usage" :> JObj(("prompt_tokens" :> JInt(prompt))
                   @@ ("completion_tokens" :> JInt(completion))
                   @@ ("total_tokens" :> JInt(Add64(prompt, completion))))))

\* a conversion that takes a body it cannot parse for an empty object
ConvertUnparsedAsEmpty(targetResp, mdl, u, at) ==
    [err |-> FALSE,
     body |-> <<Doc(OpenAIResponse(CompletionID(u), at, mdl, UnmarshalMap(targetResp).m))>>]

\* lines 204-254
ConvertToOpenAIResponse(targetResp, mdl, u, at) ==
    LET parsed == UnmarshalMap(targetResp) IN
    IF parsed.err THEN [err |-> TRUE, body |-> <<>>]
    ELSE [err |-> FALSE, body |-> <<Doc(OpenAIResponse(CompletionID(u), at, mdl, parsed.m))>>]

RECURSIVE JoinLines(_)
\* the bytes of the newline-terminated lines
JoinLines(lines) ==
    IF lines = <<>> THEN <<>> ELSE Head(lines) \o <<NL>> \o JoinLines(Tail(lines))

\* io.ReadAll(resp.Body) when the body ends regularly
BodyText(body) == JoinLines(body.lines) \o body.tail

\* lines 448-470: read the whole body, convert it, pass it through when the
\* conversion fails
NonStream(r) ==
    /\ pc[r] = "nonstream"
    /\ \E u \in Uuids, body \in Bodies :
         LET respBody == BodyText(body)
             conv == ConvertToOpenAIResponse(respBody, model[r], u, clock)
         IN /\ upstream' = [upstream EXCEPT ![r].lines = body.lines, ![r].tail = body.tail,
                                            ![r].ending = body.ending]
            /\ w' = [w EXCEPT ![r] =
                   IF body.ending # "EOF"
                   THEN RespJSON(w[r], 500,
                                 ErrorEnvelope("reading the target response failed",
                                               "internal_error"))
                   ELSE IF conv.err
                   THEN RespData(w[r], upstream[r].status, upstream[r].ctype, respBody)
                   ELSE RespData(w[r], upstream[r].status, "application/json", conv.body)]
    /\ pc' = [pc EXCEPT ![r] = "done"]
    /\ UNCHANGED <<globalVars, clientTimeout, clock, handlerVars, calls,
                   streamVars, cancelled>>

(***************************************************************************)
(* The next-state relation: every request runs openaiProxyHandler in its   *)
(* own goroutine.                                                          *)
(***************************************************************************)
Next ==
    \/ \E r \in Reqs : GetJWTTokenBuild(r)
    \/ \E r \in Reqs : GetJWTTokenSetTimeout(r)
    \/ \E r \in Reqs : GetJWTTokenDo(r)
    \/ \E r \in Reqs : PrepareRequest(r)
    \/ \E r \in Reqs : ForwardSetTimeout(r)
    \/ \E r \in Reqs : ForwardDo(r)
    \/ \E r \in Reqs : StreamStart(r)
    \/ \E r \in Reqs : StreamReadLine(r)
    \/ \E r \in Reqs : StreamReadEnd(r)
    \/ \E r \in Reqs : StreamCheck(r)
    \/ \E r \in Reqs : StreamReturn(r)
    \/ \E r \in Reqs : NonStream(r)
    \/ \E r \in Reqs : ClientCancel(r)
    \/ Tick

(***************************************************************************)
(* Specifications.                                                         *)
(***************************************************************************)
\* one request against every event stream of at most MaxLines lines
InitStream ==
    /\ config = DefaultConfig
    /\ env = "stream"
    /\ InitRequests(1)

SpecStream == InitStream /\ [][Next]_vars

\* a TOKEN_METHOD http.NewRequest rejects
BadTokenMethodConfig == [DefaultConfig EXCEPT !.TokenMethod = "BAD METHOD"]

\* one request against every auth reply, with a token method that is valid
\* or not
InitToken ==
    /\ config \in {DefaultConfig, BadTokenMethodConfig}
    /\ env = "token"
    /\ InitRequests(1)

SpecToken == InitToken /\ [][Next]_vars

\* a TARGET_METHOD http.NewRequest rejects
BadTargetMethodConfig == [DefaultConfig EXCEPT !.TargetMethod = "BAD METHOD"]

\* one request with every inbound body against every single-shot backend
\* reply, with a target method that is valid or not
InitHandler ==
    /\ config \in {DefaultConfig, BadTargetMethodConfig}
    /\ env = "handler"
    /\ InitRequests(1)

SpecHandler == InitHandler /\ [][Next]_vars

\* NumReqs requests handled concurrently, all collaborators working
InitConcurrent ==
    /\ config = DefaultConfig
    /\ env = "concurrent"
    /\ InitRequests(NumReqs)

SpecConcurrent == InitConcurrent /\ [][Next]_vars

\* NumReqs requests handled concurrently against an auth service that hands
\* out different tokens, or none
InitCrossed ==
    /\ config = DefaultConfig
    /\ env = "crossed"
    /\ InitRequests(NumReqs)

SpecCrossed == InitCrossed /\ [][Next]_vars

(***************************************************************************)
(* Reading what a client received.                                         *)
(***************************************************************************)
\* one write of the form "data: <json>\n\n"
IsSSEFrame(f) ==
    Len(f) = 5 /\ SubSeq(f, 1, 2) = DataPrefix /\ f[3].k = "json" /\ f[4] = NL /\ f[5] = NL

ChunkJSON(f) == f[3].v.m
ChoiceJSON(f) == ChunkJSON(f)["choices"].a[1].m
DeltaJSON(f) == ChoiceJSON(f)["delta"].m

\* empty delta, finish_reason "stop"
IsTerminalChunk(f) ==
    /\ IsSSEFrame(f)
    /\ DeltaJSON(f) = EmptyMap
    /\ "finish_reason" \in DOMAIN ChoiceJSON(f)
    /\ ChoiceJSON(f)["finish_reason"] = JStr("stop")

\* a delta of the assistant, no finish_reason
IsContentChunk(f) ==
    /\ IsSSEFrame(f)
    /\ "finish_reason" \notin DOMAIN ChoiceJSON(f)
    /\ "role" \in DOMAIN DeltaJSON(f)
    /\ DeltaJSON(f)["role"] = JStr("assistant")

\* delta.content as a client decodes it: an omitted string reads as empty
DeltaContent(f) ==
    IF "content" \in DOMAIN DeltaJSON(f) THEN DeltaJSON(f)["content"].s ELSE ""

\* the JSON error envelope of the given type
IsErrorEnvelope(f, type) ==
    /\ Len(f) = 1 /\ f[1].k = "json" /\ f[1].v.t = "obj"
    /\ "error" \in DOMAIN f[1].v.m
    /\ f[1].v.m["error"].m["type"] = JStr(type)

\* handleStreamResponse has returned
StreamEnded(r) == isStream[r] /\ pc[r] \in {"stream_ret", "done"}
\* ... after the backend body reached end-of-input
ReachedEOF(r) == StreamEnded(r) /\ upstream[r].ending = "EOF"
\* ... at a cancellation check
StoppedByCancel(r) == StreamEnded(r) /\ upstream[r].ending = "open"
\* handleStreamResponse is in its loop
Reading(r) == isStream[r] /\ pc[r] \in {"stream_read", "stream_check"}

\* a backend line "data: <json object with a string content>", with or
\* without a carriage return before its newline
WellFormedEvent(line) ==
    /\ Len(line) \in {3, 4}
    /\ SubSeq(line, 1, 2) = DataPrefix
    /\ line[3].k = "json" /\ line[3].v.t = "obj"
    /\ "content" \in DOMAIN line[3].v.m
    /\ line[3].v.m["content"].t = "str"
    /\ Len(line) = 4 => line[4] = CR

EventContent(line) == line[3].v.m["content"].s

(***************************************************************************)
(* C1.  When the backend body reaches end-of-input, handleStreamResponse   *)
(* has written exactly one terminal chunk (empty delta, finish_reason      *)
(* "stop"), it is the last write of the response, every write before it is *)
(* a content chunk, and nil is returned; nothing is written after it.      *)
(***************************************************************************)
C1_TerminalChunkAtEOF ==
    \A r \in Reqs :
        ReachedEOF(r) =>
            LET b == w[r].body IN
            /\ Len(b) >= 1
            /\ IsTerminalChunk(b[Len(b)])
            /\ \A i \in 1..(Len(b) - 1) : IsContentChunk(b[i])
            /\ serr[r] = "nil"

C1_Witness ==
    \E r \in Reqs : ReachedEOF(r) /\ pc[r] = "done" /\ Len(w[r].body) >= 3

(***************************************************************************)
(* C2.  A stream of n well-formed "data: <json>" lines followed by         *)
(* end-of-input, the client not cancelling, yields exactly n+1 chunks: the *)
(* n content chunks carry the backend content values in the order of the   *)
(* backend lines, and the last chunk is the terminal one.                  *)
(***************************************************************************)
C2_ChunksInOrder ==
    \A r \in Reqs :
        LET lines == upstream[r].lines
            b == w[r].body
            n == Len(lines)
        IN  (/\ ReachedEOF(r)
             /\ ~cancelled[r]
             /\ \A i \in 1..n : WellFormedEvent(lines[i]))
            => /\ Len(b) = n + 1
               /\ \A i \in 1..n : /\ IsContentChunk(b[i])
                                  /\ DeltaContent(b[i]) = EventContent(lines[i])
               /\ IsTerminalChunk(b[n + 1])

C2_Witness ==
    \E r \in Reqs :
        /\ ReachedEOF(r) /\ ~cancelled[r] /\ pc[r] = "done"
        /\ Len(upstream[r].lines) >= 2
        /\ \A i \in 1..Len(upstream[r].lines) : WellFormedEvent(upstream[r].lines[i])
        /\ EventContent(upstream[r].lines[1]) = "A"
        /\ EventContent(upstream[r].lines[2]) = "B"
        /\ Len(w[r].body) = Len(upstream[r].lines) + 1

(***************************************************************************)
(* The writes a stream owes its client for the lines read so far, given    *)
(* the lines that count as events.                                         *)
(***************************************************************************)
\* the well-formed events among the lines
Events(lines) == SelectSeq(lines, WellFormedEvent)

\* the writes b are the content chunks of the events, in their order
CarriesEvents(b, events) ==
    /\ Len(b) = Len(events)
    /\ \A i \in 1..Len(events) :
           IsContentChunk(b[i]) /\ DeltaContent(b[i]) = EventContent(events[i])

\* while reading and when stopped by a cancellation the content chunks of
\* the events have been written and nothing else; at end-of-input the
\* terminal chunk follows them and nil is returned
OwesEvents(r, events) ==
    LET b == w[r].body IN
    /\ (Reading(r) \/ StoppedByCancel(r)) => CarriesEvents(b, events)
    /\ ReachedEOF(r) =>
           /\ Len(b) = Len(events) + 1
           /\ CarriesEvents(SubSeq(b, 1, Len(events)), events)
           /\ IsTerminalChunk(b[Len(b)])
           /\ serr[r] = "nil"

\* a terminal chunk is in the response only once end-of-input was reached
TerminalOnlyAtEOF(r) ==
    isStream[r] =>
        \A i \in 1..Len(w[r].body) :
            IsTerminalChunk(w[r].body[i]) => upstream[r].ending = "EOF"

(***************************************************************************)
(* C3 (as stated).  Once the client is cancelled mid-stream with a chunk   *)
(* already written, no later step of the stream writes the terminal chunk  *)
(* or returns an error, whatever the backend still sends.                  *)
(***************************************************************************)
C3_NoTerminalAfterCancel ==
    [][\A r \in Reqs :
         (Reading(r) /\ cancelled[r] /\ Len(w[r].body) >= 1) =>
             /\ ~(/\ Len(w'[r].body) > Len(w[r].body)
                  /\ IsTerminalChunk(w'[r].body[Len(w'[r].body)]))
             /\ serr'[r] # "error"]_vars

(***************************************************************************)
(* C3 (amended).  The cancellation is seen at the check that follows a     *)
(* written chunk: found cancelled there, the stream stops at once, with no *)
(* terminal chunk, no error and no further write.  A stream stopped this   *)
(* way holds content chunks only.  When the backend body ends before       *)
(* another chunk is written, the cancelled stream still gets its terminal  *)
(* chunk (end-of-input) or its error (read error).                         *)
(***************************************************************************)
C3_StopsAtNextCheck ==
    /\ [](\A r \in Reqs :
            StoppedByCancel(r) =>
                /\ cancelled[r]
                /\ serr[r] = "nil"
                /\ Len(w[r].body) >= 1
                /\ \A i \in 1..Len(w[r].body) : IsContentChunk(w[r].body[i]))
    /\ [][\A r \in Reqs :
            /\ (pc[r] = "stream_check" /\ cancelled[r] /\ pc'[r] # pc[r]) =>
                   pc'[r] = "stream_ret" /\ serr'[r] = "nil" /\ w'[r] = w[r]
            /\ (pc[r] = "stream_check" /\ ~cancelled[r] /\ pc'[r] # pc[r]) =>
                   pc'[r] = "stream_read" /\ w'[r] = w[r]
            /\ (pc[r] = "stream_read" /\ cancelled[r] /\ pc'[r] = "stream_ret") =>
                   IF upstream'[r].ending = "EOF"
                   THEN /\ serr'[r] = "nil"
                        /\ Len(w'[r].body) = Len(w[r].body) + 1
                        /\ IsTerminalChunk(w'[r].body[Len(w'[r].body)])
                   ELSE serr'[r] = "error" /\ w'[r] = w[r]]_vars

\* a stream stopped by the cancellation after its second chunk
C3_Witness ==
    \E r \in Reqs :
        /\ StoppedByCancel(r) /\ pc[r] = "done" /\ cancelled[r]
        /\ Len(w[r].body) = 2
        /\ Len(upstream[r].lines) < MaxLines

(***************************************************************************)
(* C4 (as stated).  The stream_error envelope is written only to a         *)
(* response that holds no chunk yet: it is never appended after a chunk.   *)
(***************************************************************************)
C4_EnvelopeOnlyBeforeFirstByte ==
    \A r \in Reqs :
        isStream[r] =>
            \A i \in 1..Len(w[r].body) :
                IsErrorEnvelope(w[r].body[i], "stream_error") => i = 1

(***************************************************************************)
(* C5.  A "data: " line whose payload does not parse produces no chunk and *)
(* does not end the stream: in a stream of well-formed events and such     *)
(* lines, the chunks written are those of the well-formed events, in       *)
(* order, those after a malformed line included; the stream ends only at   *)
(* end-of-input, with the terminal chunk, at a read error, or at a         *)
(* cancellation check that follows a chunk.                                *)
(***************************************************************************)
\* "data: " followed by text that is neither a JSON document nor [DONE]
MalformedEvent(line) ==
    /\ Len(line) >= 3
    /\ SubSeq(line, 1, 2) = DataPrefix
    /\ \A i \in 3..Len(line) : line[i].k = "txt"
    /\ \E i \in 3..Len(line) : ~IsSpace(line[i])
    /\ SubSeq(line, 3, Len(line)) # DoneSentinel

C5_MalformedLineSkipped ==
    \A r \in Reqs :
        LET lines == upstream[r].lines IN
        (/\ isStream[r]
         /\ \E i \in 1..Len(lines) : MalformedEvent(lines[i])
         /\ \A i \in 1..Len(lines) : WellFormedEvent(lines[i]) \/ MalformedEvent(lines[i]))
        => /\ OwesEvents(r, Events(lines))
           /\ StoppedByCancel(r) => WellFormedEvent(lines[Len(lines)])

\* a malformed line, then a well-formed one, then end-of-input
C5_Witness ==
    \E r \in Reqs :
        /\ ReachedEOF(r) /\ pc[r] = "done"
        /\ Len(upstream[r].lines) >= 2
        /\ MalformedEvent(upstream[r].lines[1])
        /\ WellFormedEvent(upstream[r].lines[2])
        /\ \A i \in 1..Len(upstream[r].lines) :
               WellFormedEvent(upstream[r].lines[i]) \/ MalformedEvent(upstream[r].lines[i])
        /\ Len(w[r].body) = Len(Events(upstream[r].lines)) + 1

(***************************************************************************)
(* C6 (as stated).  A "data: [DONE]" line and any line that does not start *)
(* with "data: " produce no chunk, are no error and leave the stream       *)
(* reading: in a stream of well-formed events and such lines the chunks    *)
(* written are those of the well-formed events, and the terminal chunk is  *)
(* written at end-of-input only.                                           *)
(***************************************************************************)
\* "data: [DONE]", with or without a carriage return
DoneLine(line) ==
    line = DataPrefix \o DoneSentinel \/ line = DataPrefix \o DoneSentinel \o <<CR>>

\* the line as sent does not start with "data: "
NotDataAsSent(line) == ~(Len(line) >= 2 /\ SubSeq(line, 1, 2) = DataPrefix)

C6_NonDataLinesDiscarded ==
    \A r \in Reqs :
        LET lines == upstream[r].lines IN
        (/\ isStream[r]
         /\ \A i \in 1..Len(lines) :
                WellFormedEvent(lines[i]) \/ DoneLine(lines[i]) \/ NotDataAsSent(lines[i]))
        => OwesEvents(r, Events(lines)) /\ TerminalOnlyAtEOF(r)

(***************************************************************************)
(* C6 (amended).  A "data: [DONE]" line and any line that, once its        *)
(* leading and trailing whitespace is stripped, does not start with        *)
(* "data: " produce no chunk, are no error and leave the stream reading:   *)
(* lines after them are still processed, and the terminal chunk is written *)
(* at end-of-input only, never on [DONE].                                  *)
(***************************************************************************)
\* the line, stripped of the whitespace around it, does not start with "data: "
NotDataOnceStripped(line) ==
    \E k \in 0..Len(line) :
        /\ \A j \in 1..k : IsSpace(line[j])
        /\ k < Len(line) => ~IsSpace(line[k + 1])
        /\ ~(/\ Len(line) >= k + 3
             /\ SubSeq(line, k + 1, k + 2) = DataPrefix
             /\ \E j \in (k + 3)..Len(line) : ~IsSpace(line[j]))

C6_StrippedNonDataLinesDiscarded ==
    \A r \in Reqs :
        LET lines == upstream[r].lines IN
        (/\ isStream[r]
         /\ \A i \in 1..Len(lines) :
                WellFormedEvent(lines[i]) \/ DoneLine(lines[i]) \/ NotDataOnceStripped(lines[i]))
        => /\ OwesEvents(r, Events(lines))
           /\ TerminalOnlyAtEOF(r)
           /\ StoppedByCancel(r) => WellFormedEvent(lines[Len(lines)])

\* [DONE], a blank line, then an event, then end-of-input
C6_Witness ==
    \E r \in Reqs :
        /\ ReachedEOF(r) /\ pc[r] = "done"
        /\ Len(upstream[r].lines) = 3
        /\ DoneLine(upstream[r].lines[1])
        /\ NotDataOnceStripped(upstream[r].lines[2])
        /\ WellFormedEvent(upstream[r].lines[3])
        /\ Len(w[r].body) = 2

(***************************************************************************)
(* C7.  Every chunk written for one stream, content chunks and the         *)
(* terminal chunk alike, carries the id and the created timestamp computed *)
(* at the start of the stream, and neither is recomputed while the stream  *)
(* is relayed.                                                             *)
(***************************************************************************)
C7_SameIdAndCreated ==
    /\ [](\A r \in Reqs :
            (Reading(r) \/ StreamEnded(r)) =>
                \A i \in 1..Len(w[r].body) :
                    IsSSEFrame(w[r].body[i]) =>
                        /\ ChunkJSON(w[r].body[i])["id"] = JStr(chunkID[r])
                        /\ ChunkJSON(w[r].body[i])["created"] = JNum(created[r]))
    /\ [][\A r \in Reqs :
            (Reading(r) \/ StreamEnded(r)) =>
                chunkID'[r] = chunkID[r] /\ created'[r] = created[r]]_vars

\* a finished stream of three chunks, the clock past the stream's start
C7_Witness ==
    \E r \in Reqs :
        /\ ReachedEOF(r) /\ pc[r] = "done"
        /\ Len(w[r].body) >= 3
        /\ clock > created[r]

(***************************************************************************)
(* C8 (as stated).  Every call a request sends runs under the timeout      *)
(* configured for it, however the requests interleave: the credential      *)
(* fetch under the auth-call timeout, the backend dispatch under the       *)
(* backend timeout.                                                        *)
(***************************************************************************)
C8_CallsUnderOwnTimeout ==
    \A r \in Reqs :
        \A i \in 1..Len(calls[r]) :
            /\ calls[r][i].to = "auth" => calls[r][i].timeout = config.TokenTimeout
            /\ calls[r][i].to = "backend" => calls[r][i].timeout = config.ServerTimeout

(***************************************************************************)
(* Reading how a credential acquisition ended.                             *)
(***************************************************************************)
\* getJWTToken is over for request r
AcquisitionOver(r) == pc[r] \notin {"start", "tok_timeout", "tok_do"}

\* the client of r received the token_error envelope and nothing else
AnsweredTokenError(r) ==
    /\ pc[r] = "done"
    /\ w[r].status = 500
    /\ Len(w[r].body) = 1
    /\ IsErrorEnvelope(w[r].body[1], "token_error")

(***************************************************************************)
(* C9.  The credential is the value of the first field present in the auth *)
(* reply, in the order token, access_token, jwt: when that value is a      *)
(* non-empty string the acquisition succeeds with it and the backend       *)
(* request carries it; a later field is never used in its place.           *)
(***************************************************************************)
\* the rank of a field name in the precedence order
FieldRank(f) == CASE f = "token" -> 1 [] f = "access_token" -> 2 [] f = "jwt" -> 3

\* the auth reply of request r is a JSON object holding one of the fields
RepliedWithField(r) ==
    /\ Len(calls[r]) >= 1
    /\ calls[r][1].reply.kind = "body"
    /\ Len(calls[r][1].reply.text) = 1
    /\ calls[r][1].reply.text[1].k = "json"
    /\ calls[r][1].reply.text[1].v.t = "obj"
    /\ DOMAIN calls[r][1].reply.text[1].v.m \cap {"token", "access_token", "jwt"} # {}

\* the value of the first field present
FirstPresent(r) ==
    LET m == calls[r][1].reply.text[1].v.m
        fields == DOMAIN m \cap {"token", "access_token", "jwt"}
        f == CHOOSE f \in fields : \A g \in fields : FieldRank(f) <= FieldRank(g)
    IN m[f]

C9_FirstPresentFieldWins ==
    \A r \in Reqs :
        RepliedWithField(r) =>
            /\ (FirstPresent(r).t = "str" /\ FirstPresent(r).s # "") =>
                   /\ token[r] = FirstPresent(r).s
                   /\ AcquisitionOver(r) /\ ~AnsweredTokenError(r)
            /\ token[r] # "" => JStr(token[r]) = FirstPresent(r)
            /\ req[r] # NoRequest => JStr(req[r].headers["X-Trust-Token"]) = FirstPresent(r)

\* access_token and jwt both present, token absent: the backend request
\* carries the access_token value
C9_Witness ==
    \E r \in Reqs :
        /\ RepliedWithField(r)
        /\ DOMAIN calls[r][1].reply.text[1].v.m = {"access_token", "jwt"}
        /\ calls[r][1].reply.text[1].v.m["jwt"] = JStr("t3")
        /\ Len(calls[r]) = 2
        /\ calls[r][2].req.headers["X-Trust-Token"] = "t2"

(***************************************************************************)
(* C10 (as stated).  Credential acquisition ends in one of two outcomes: a *)
(* non-empty credential, with which the handler goes on, or a token error, *)
(* for which the client receives the token_error envelope.                 *)
(***************************************************************************)
C10_CredentialOrTokenError ==
    \A r \in Reqs :
        AcquisitionOver(r) =>
            /\ token[r] # "" \/ AnsweredTokenError(r)
            /\ ~(token[r] # "" /\ AnsweredTokenError(r))

(***************************************************************************)
(* C11 (as stated).  Every request sends exactly one call to the auth      *)
(* endpoint, whatever its outcome: never more than one, and exactly one    *)
(* once its acquisition is over.                                           *)
(***************************************************************************)
\* the number of calls request r has sent to the auth endpoint
AuthCalls(r) == Cardinality({i \in 1..Len(calls[r]) : calls[r][i].to = "auth"})

C11_ExactlyOneAuthCall ==
    \A r \in Reqs :
        /\ AuthCalls(r) <= 1
        /\ AcquisitionOver(r) => AuthCalls(r) = 1

(***************************************************************************)
(* C11 (amended).  Every request runs one credential acquisition, which    *)
(* sends at most one call to the auth endpoint: exactly one when the token *)
(* request can be built, none when it cannot (the configured method is     *)
(* rejected), in which case the request ends with the token error.  A      *)
(* failed call is not repeated, and a request holds a credential or sends  *)
(* a backend request only after its own auth call.                         *)
(***************************************************************************)
C11_OneAcquisitionPerRequest ==
    \A r \in Reqs :
        /\ AuthCalls(r) <= 1
        /\ AcquisitionOver(r) =>
               IF ValidMethod(config.TokenMethod)
               THEN AuthCalls(r) = 1
               ELSE AuthCalls(r) = 0 /\ AnsweredTokenError(r)
        /\ token[r] # "" => AuthCalls(r) = 1 /\ calls[r][1].to = "auth"
        /\ Len(calls[r]) > 1 => calls[r][1].to = "auth"

\* a request ended by a failed auth call: the call was sent once
C11_Witness ==
    \E r \in Reqs :
        /\ pc[r] = "done" /\ AnsweredTokenError(r)
        /\ Len(calls[r]) = 1
        /\ calls[r][1].to = "auth" /\ calls[r][1].reply.kind = "neterr"

(***************************************************************************)
(* C12 (as stated).  The steps of a request run in order and a failure     *)
(* ends it: the calls sent are the auth call, then at most the backend     *)
(* request, which is sent only with a credential and a request built; a    *)
(* request that ended without a backend response has received exactly one  *)
(* error envelope, of the type and status of the step that failed.         *)
(***************************************************************************)
\* the client of r received one error envelope of this type, with this status
AnsweredError(r, type, status) ==
    /\ w[r].status = status
    /\ Len(w[r].body) = 1
    /\ IsErrorEnvelope(w[r].body[1], type)

C12_FailureEndsWithOneEnvelope ==
    \A r \in Reqs :
        /\ Len(calls[r]) <= 2
        /\ \A i \in 1..Len(calls[r]) : calls[r][i].to = (IF i = 1 THEN "auth" ELSE "backend")
        /\ Len(calls[r]) = 2 => token[r] # "" /\ req[r] # NoRequest
        /\ (pc[r] = "done" /\ upstream[r] = NoUpstream) =>
               IF token[r] = "" THEN AnsweredError(r, "token_error", 500)
               ELSE IF Len(calls[r]) = 2 THEN AnsweredError(r, "downstream_error", 502)
               ELSE \/ AnsweredError(r, "invalid_request_error", 400)
                    \/ AnsweredError(r, "internal_error", 500)

(***************************************************************************)
(* Reading what a non-stream request got from the backend and answered.    *)
(***************************************************************************)
\* request r, not a stream, has read the backend body whole
ReadWhole(r) ==
    pc[r] = "done" /\ ~isStream[r] /\ upstream[r].status # 0 /\ upstream[r].ending = "EOF"

\* the bytes of that body
BackendBody(r) == JoinLines(upstream[r].lines) \o upstream[r].tail

\* the text holds no JSON document
NoDocument(text) == \A i \in 1..Len(text) : text[i].k # "json"

(***************************************************************************)
(* C13.  A non-stream request whose backend body is no JSON document is    *)
(* answered with the backend's status code, content type and body,         *)
(* unchanged, and with no error envelope.                                  *)
(***************************************************************************)
C13_UnparsableBodyPassedThrough ==
    \A r \in Reqs :
        (ReadWhole(r) /\ NoDocument(BackendBody(r))) =>
            /\ w[r].status = upstream[r].status
            /\ w[r].hdr = ("Content-Type" :> upstream[r].ctype)
            /\ w[r].body = <<BackendBody(r)>>

\* an HTML error page of the backend, answered 500
C13_Witness ==
    \E r \in Reqs :
        /\ ReadWhole(r)
        /\ BackendBody(r) = <<Txt("<html>")>>
        /\ upstream[r].status = 500 /\ upstream[r].ctype = "text/html"
        /\ w[r].status = 500

(***************************************************************************)
(* C14 (as stated).  A non-stream request answered with a translated       *)
(* ChatCompletion body is answered with status 200.                        *)
(***************************************************************************)
\* the client of r received one write, a chat.completion document
AnsweredCompletion(r) ==
    /\ Len(w[r].body) = 1
    /\ Len(w[r].body[1]) = 1
    /\ w[r].body[1][1].k = "json"
    /\ w[r].body[1][1].v.t = "obj"
    /\ "object" \in DOMAIN w[r].body[1][1].v.m
    /\ w[r].body[1][1].v.m["object"] = JStr("chat.completion")

\* the document
Completion(r) == w[r].body[1][1].v.m

C14_TranslatedAnswered200 ==
    \A r \in Reqs :
        (ReadWhole(r) /\ AnsweredCompletion(r)) => w[r].status = 200

(***************************************************************************)
(* Reading what a request received and what it forwarded.                  *)
(***************************************************************************)
\* request r has built its backend request
Forwards(r) == req[r] # NoRequest

\* the inbound document and the document forwarded
InboundDoc(r) == inbound[r][1].v.m
ForwardedDoc(r) == req[r].payload[1].v.m

(***************************************************************************)
(* C15 (as stated).  A caller-supplied max_tokens is always overwritten:   *)
(* for every inbound document with a max_tokens key the forwarded document *)
(* has max_tokens equal to the configured default.                         *)
(***************************************************************************)
C15_MaxTokensAlwaysDefault ==
    \A r \in Reqs :
        (Forwards(r) /\ "max_tokens" \in DOMAIN InboundDoc(r)) =>
            ForwardedDoc(r)["max_tokens"] = JNum(config.DefaultMaxToken)

(***************************************************************************)
(* C15 (amended).  A caller-supplied max_tokens is overwritten with the    *)
(* configured default unless the inbound document also has a max_token     *)
(* key: with max_token present nothing is written, and max_tokens is       *)
(* forwarded as the caller gave it, or not at all.                         *)
(***************************************************************************)
C15_MaxTokensDefaultUnlessMaxToken ==
    \A r \in Reqs :
        Forwards(r) =>
            IF "max_token" \in DOMAIN InboundDoc(r)
            THEN /\ ("max_tokens" \in DOMAIN ForwardedDoc(r)) = ("max_tokens" \in DOMAIN InboundDoc(r))
                 /\ "max_tokens" \in DOMAIN InboundDoc(r) =>
                        ForwardedDoc(r)["max_tokens"] = InboundDoc(r)["max_tokens"]
            ELSE /\ "max_tokens" \in DOMAIN ForwardedDoc(r)
                 /\ ForwardedDoc(r)["max_tokens"] = JNum(config.DefaultMaxToken)

\* a caller's max_tokens of 5, without max_token, forwarded as the default
C15_Witness ==
    \E r \in Reqs :
        /\ Forwards(r)
        /\ "max_tokens" \in DOMAIN InboundDoc(r)
        /\ InboundDoc(r)["max_tokens"] = JNum(5)
        /\ "max_token" \notin DOMAIN InboundDoc(r)
        /\ ForwardedDoc(r)["max_tokens"] = JNum(2000)
        /\ Len(calls[r]) = 2

Usage(r) == Completion(r)["usage"].m

\* the object the backend replied (empty for null)
BackendDoc(r) ==
    IF BackendBody(r)[1].v.t = "obj" THEN BackendBody(r)[1].v.m ELSE EmptyMap

C17_TotalIsSum ==
    \A r \in Reqs :
        (ReadWhole(r) /\ AnsweredCompletion(r)) =>
            /\ Usage(r)["total_tokens"].i
                   = WideSum(Usage(r)["prompt_tokens"].i, Usage(r)["completion_tokens"].i)
            /\ "prompt_tokens" \notin DOMAIN BackendDoc(r) =>
                   Usage(r)["prompt_tokens"].i = Int64(0, 0)
            /\ "completion_tokens" \notin DOMAIN BackendDoc(r) =>
                   Usage(r)["completion_tokens"].i = Int64(0, 0)

(***************************************************************************)
(* C18.  Also with several requests in flight, a request sends a backend   *)
(* request only after its own auth call has returned a non-empty           *)
(* credential, and the credential header carries that credential: never an *)
(* empty one, never the one of another request.                            *)
(***************************************************************************)
C18_OwnCredentialOnly ==
    \A r \in Reqs :
        \A i \in 1..Len(calls[r]) :
            calls[r][i].to = "backend" =>
                /\ i = 2 /\ calls[r][1].to = "auth"
                /\ RepliedWithField(r)
                /\ FirstPresent(r).t = "str" /\ FirstPresent(r).s # ""
                /\ calls[r][i].req.headers["X-Trust-Token"] = FirstPresent(r).s

\* two requests in flight together, each sent with its own credential, the
\* second acquired before the first was used
C18_Witness ==
    \E r1, r2 \in Reqs :
        /\ Len(calls[r1]) = 2 /\ Len(calls[r2]) = 2
        /\ calls[r1][2].req.headers["X-Trust-Token"] = "t1"
        /\ calls[r2][2].req.headers["X-Trust-Token"] = "t2"
        /\ pc[r1] # "done" /\ pc[r2] # "done"

(***************************************************************************)
(* C19.  A last backend line that reaches end-of-input without its newline *)
(* is dropped, also when it is a well-formed event: no chunk carries its   *)
(* content, and what is written at end-of-input is the terminal chunk,     *)
(* right after the chunks of the finished lines.                           *)
(***************************************************************************)
\* the stream of r ended at end-of-input inside a well-formed event
EndedInsideEvent(r) ==
    ReachedEOF(r) /\ upstream[r].tail # <<>> /\ WellFormedEvent(upstream[r].tail)

C19_UnfinishedLastLineDropped ==
    \A r \in Reqs :
        EndedInsideEvent(r) =>
            LET b == w[r].body
                lines == upstream[r].lines
            IN
            /\ Len(b) >= 1 /\ IsTerminalChunk(b[Len(b)])
            /\ \A i \in 1..(Len(b) - 1) :
                   IsContentChunk(b[i]) /\ DeltaContent(b[i]) # EventContent(upstream[r].tail)
            /\ (\A i \in 1..Len(lines) : WellFormedEvent(lines[i])) =>
                   OwesEvents(r, Events(lines))

\* one finished event, then end-of-input inside a second one: two writes
C19_Witness ==
    \E r \in Reqs :
        /\ EndedInsideEvent(r) /\ pc[r] = "done"
        /\ Len(upstream[r].lines) = 1 /\ WellFormedEvent(upstream[r].lines[1])
        /\ Len(w[r].body) = 2

(***************************************************************************)
(* C20.  The credential field is selected by presence, not by content:     *)
(* when the first field present in the order token, access_token, jwt      *)
(* holds the empty string, no later field is used, whatever it holds, and  *)
(* the acquisition fails with the token error.                             *)
(***************************************************************************)
C20_EmptyFieldNotSkipped ==
    \A r \in Reqs :
        (RepliedWithField(r) /\ FirstPresent(r) = JStr("")) =>
            /\ token[r] = ""
            /\ AnsweredTokenError(r)
            /\ Len(calls[r]) = 1

\* token empty beside an access_token and a jwt that hold tokens
C20_Witness ==
    \E r \in Reqs :
        /\ RepliedWithField(r)
        /\ calls[r][1].reply.text[1].v.m
               = (("token" :> JStr("")) @@ ("access_token" :> JStr("t2")) @@ ("jwt" :> JStr("t3")))
        /\ AnsweredTokenError(r)

====
